---- MODULE Spec2Model ----
(***************************************************************************)
(* KDE shell protocol extensions of smithay (appmenu, blur, server         *)
(* decoration): manager globals, per-surface objects and the dispatch of   *)
(* client requests to the host's handler callbacks.                        *)
(*                                                                         *)
(* The protocol runtime (wayland-server) is the environment: it keeps one  *)
(* FIFO of requests per client, checks can_view before it calls bind,      *)
(* keeps the object table, removes an object after its destructor request  *)
(* and kills a client that addresses an object that is not in the table.   *)
(***************************************************************************)
EXTENDS Naturals, Sequences, FiniteSets, TLC

\* ------------------------------------------------------------------ bounds

\* Total number of requests all clients together put on the wire.
MaxMsgs == 4

\* ------------------------------------------------------ protocol constants

\* Version the appmenu manager global is created with.
AppmenuVersion == 2
\* Version the blur manager global is created with.
BlurVersion == 1
\* Version the decoration manager global is created with.
DecorationVersion == 1

Exts == {"appmenu", "blur", "decoration"}

Version(e) ==
    CASE e = "appmenu" -> AppmenuVersion
      [] e = "blur" -> BlurVersion
      [] OTHER -> DecorationVersion

\* Requests of a manager interface that a client bound at version v can send.
ManagerRequest(e, v) ==
    CASE e = "appmenu" -> IF v >= 2 THEN {"create", "mgr_release"} ELSE {"create"}
      [] e = "blur" -> {"create", "unset"}
      [] OTHER -> {"create"}

\* Requests of a per-surface interface.
Request(e) ==
    CASE e = "appmenu" -> {"set_address", "release"}
      [] e = "blur" -> {"commit", "set_region", "release"}
      [] OTHER -> {"request_mode", "release"}

\* Requests whose protocol type is "destructor".
Destructors == {"release", "mgr_release"}

\* ------------------------------------------------------------- environment

Clients == {"c1", "c2"}

\* The wl_surface objects each client holds.
SurfacesOf(c) == IF c = "c1" THEN {"s1", "s2"} ELSE {"s3"}

Surfaces == UNION {SurfacesOf(c) : c \in Clients}

\* (service_name, object_path) pairs a client sends with set_address.
Addresses == {<<"", "">>, <<"org.example.App", "/MenuBar">>}
\* Option<WlRegion>: "none" is None.
Regions == {"none", "r1"}
Modes == {"None", "Client", "Server"}

\* Predicates a host constructs a state with: |_| true, and one that holds of
\* c1 alone.
Filters == {[c \in Clients |-> TRUE], [c \in Clients |-> c = "c1"]}

NoStr == "-"

VARIABLES
    global_data,   \* per registered extension: the data of its manager global
    display,       \* the display's globals: name -> GlobalId
    kde_state,     \* per registered extension: the state struct the host keeps
    default_mode,  \* KdeDecorationState::default_mode
    conn,          \* per client: "up" or "down"
    wire,          \* per client: every request it sent, in order
    rd,            \* per client: how many of them the runtime dispatched
    proxies,       \* per client: what it allocated each of its object ids for
    table,         \* per client: the runtime's object table, id -> user data
    created,       \* per client: ids that data_init.init finalized so far
    calls,         \* per client: host callbacks made for its requests
    events,        \* per client: protocol events sent to it
    errors,        \* per client: protocol errors posted to it, and by whom
    evals,         \* per client: evaluations of a filter made for its binds
    panicked       \* a dispatch reached unreachable!()

vars == <<global_data, display, kde_state, default_mode, conn, wire, rd, proxies, table, created,
          calls, events, errors, evals, panicked>>

\* ---------------------------------------------------------- construction

\* KdeAppMenuState::new_with_filter / KdeBlurState::new_with_filter: the data
\* handed to create_global together with the version.
new_with_filter(e, filter) == [version |-> Version(e), filter |-> filter]

\* A faulty variant: new installs a predicate that holds of c1 alone.
new_c1_only(e) == new_with_filter(e, [c \in Clients |-> c = "c1"])

\* KdeAppMenuState::new / KdeBlurState::new.
new(e) == new_with_filter(e, [c \in Clients |-> TRUE])

\* The globals a host has created before it constructs a state of this module.
HostGlobals == "wl_compositor" :> 1 @@ "wl_shm" :> 2

\* display.create_global: the GlobalId the display gives the next global.
create_global(d) == Cardinality(DOMAIN d) + 1

\* The state struct new_with_filter returns: Self { kde_appmenu_manager } /
\* Self { kde_blur_manager }, holding the id create_global returned.
KdeState(id) == [manager |-> id]

\* A faulty variant: global() hands out the id of the next global.
global_next(state) == state.manager + 1

\* KdeAppMenuState::global / KdeBlurState::global.
global(state) == state.manager

\* ------------------------------------------------- steps of one dispatch

\* What a call into this code does, in the order of its statements:
\*   <<"init", id, data>>   data_init.init(id, data)
\*   <<"call", callback>>   a call of a method of the host's handler
\*   <<"event", event>>     an event sent to the client
\*   <<"post_error">>       a protocol error posted to the client
\*   <<"filter", call>>     an evaluation of the stored predicate
\*   <<"panic">>            unreachable!()
DataInit(id, data) == <<"init", id, data>>

Call(ext, fn, surface, obj, a1, a2) ==
    <<"call", [ext |-> ext, fn |-> fn, surface |-> surface, obj |-> obj,
               a1 |-> a1, a2 |-> a2, seen |-> NoStr]>>

Event(ev, obj, mode) == <<"event", [ev |-> ev, obj |-> obj, mode |-> mode]>>

Unreachable == <<"panic">>

\* object.data().unwrap() as the surface argument of a callback: the data the
\* object holds when the call is made, and a panic if it holds none.
DataUnwrap == "data().unwrap()"

\* ------------------------------------------------------- GlobalDispatch

\* One evaluation of the stored predicate, (global_data.filter)(&client): the
\* argument it is given and what it returns.
FilterCall(gd, client) == [arg |-> client, ret |-> gd.filter[client]]

\* can_view: the evaluations of the predicate it makes and what it returns.
\* A faulty variant: the predicate is evaluated twice.
AppMenu_can_view_twice(client, gd) ==
    LET r == FilterCall(gd, client)
    IN  [evals |-> <<r, r>>, ret |-> r.ret]

AppMenu_can_view(client, gd) ==
    LET r == FilterCall(gd, client)
    IN  [evals |-> <<r>>, ret |-> r.ret]

\* A faulty variant: the filter is not consulted.
Blur_can_view_always(client, gd) == [evals |-> <<>>, ret |-> TRUE]

Blur_can_view(client, gd) ==
    LET r == FilterCall(gd, client)
    IN  [evals |-> <<r>>, ret |-> r.ret]

Decoration_can_view(client, gd) ==
    LET r == FilterCall(gd, client)
    IN  [evals |-> <<r>>, ret |-> r.ret]

can_view(e, client, gd) ==
    CASE e = "appmenu" -> AppMenu_can_view(client, gd)
      [] e = "blur" -> Blur_can_view(client, gd)
      [] OTHER -> Decoration_can_view(client, gd)

\* bind is handed the client and the global's data and uses neither.
AppMenu_bind(client, resource, gd) == <<DataInit(resource, "unit")>>

\* A faulty variant: the bind announces a mode to the client, as the
\* decoration bind does.
Blur_bind_announces(client, resource, gd) ==
    <<DataInit(resource, "unit"), Event("default_mode", resource, NoStr)>>

Blur_bind(client, resource, gd) == <<DataInit(resource, "unit")>>

\* A faulty variant: the event carries a fixed mode, not the state's.
Decoration_bind_fixed_mode(state_default_mode, client, resource, gd) ==
    <<DataInit(resource, "unit"), Event("default_mode", resource, "Server")>>

Decoration_bind(state_default_mode, client, resource, gd) ==
    LET kde_decoration_manager == resource
    IN  <<DataInit(resource, "unit"),
          Event("default_mode", kde_decoration_manager, state_default_mode)>>

bind(e, state_default_mode, client, resource, gd) ==
    CASE e = "appmenu" -> AppMenu_bind(client, resource, gd)
      [] e = "blur" -> Blur_bind(client, resource, gd)
      [] OTHER -> Decoration_bind(state_default_mode, client, resource, gd)

\* ------------------------------------------------ Dispatch of the managers

\* A faulty variant: Create is refused with a protocol error.
AppMenuManager_request_refused(req) ==
    IF req.op = "create"
    THEN <<<<"post_error">>>>
    ELSE <<Unreachable>>

\* A faulty variant: the object is finalized with unit data, not with the surface.
AppMenuManager_request_unit(req) ==
    IF req.op = "create"
    THEN <<DataInit(req.newid, "unit"),
           Call("appmenu", "new_appmenu", req.surface, req.newid, NoStr, NoStr)>>
    ELSE <<Unreachable>>

AppMenuManager_request(req) ==
    IF req.op = "create"
    THEN LET id == req.newid
             surface == req.surface
             appmenu == id
         IN  <<DataInit(id, surface),
               Call("appmenu", "new_appmenu", surface, appmenu, NoStr, NoStr)>>
    ELSE <<Unreachable>>

\* A faulty variant: Unset is reported to the host as a release.
BlurManager_request_unset_releases(req) ==
    CASE req.op = "create" ->
            <<DataInit(req.newid, req.surface),
              Call("blur", "new_blur", DataUnwrap, req.newid, NoStr, NoStr)>>
      [] req.op = "unset" ->
            <<Call("blur", "release", req.surface, 0, NoStr, NoStr)>>
      [] OTHER -> <<Unreachable>>

\* A faulty variant: Unset is not forwarded to the host.
BlurManager_request_unset_dropped(req) ==
    CASE req.op = "create" ->
            <<DataInit(req.newid, req.surface),
              Call("blur", "new_blur", DataUnwrap, req.newid, NoStr, NoStr)>>
      [] req.op = "unset" -> <<>>
      [] OTHER -> <<Unreachable>>

BlurManager_request(req) ==
    CASE req.op = "create" ->
            LET blur == req.newid
                surface == DataUnwrap
            IN  <<DataInit(req.newid, req.surface),
                  Call("blur", "new_blur", surface, blur, NoStr, NoStr)>>
      [] req.op = "unset" ->
            <<Call("blur", "unset", req.surface, 0, NoStr, NoStr)>>
      [] OTHER -> <<Unreachable>>

\* A faulty variant: the host is told of the object before the object is finalized.
DecorationManager_request_call_first(req) ==
    IF req.op = "create"
    THEN <<Call("decoration", "new_decoration", DataUnwrap, req.newid, NoStr, NoStr),
           DataInit(req.newid, req.surface)>>
    ELSE <<Unreachable>>

DecorationManager_request(req) ==
    IF req.op = "create"
    THEN LET kde_decoration == req.newid
             surface == DataUnwrap
         IN  <<DataInit(req.newid, req.surface),
               Call("decoration", "new_decoration", surface, kde_decoration,
                    NoStr, NoStr)>>
    ELSE <<Unreachable>>

manager_request(e, req) ==
    CASE e = "appmenu" -> AppMenuManager_request(req)
      [] e = "blur" -> BlurManager_request(req)
      [] OTHER -> DecorationManager_request(req)

\* --------------------------------------- Dispatch of the per-surface objects

\* region.as_ref(): Option<WlRegion> to Option<&WlRegion>
as_ref(region) == IF region = "none" THEN "none" ELSE region

\* A faulty variant: the two strings of SetAddress change places.
AppMenu_request_swapped(appmenu, req, surface) ==
    CASE req.op = "set_address" ->
            <<Call("appmenu", "set_address", surface, appmenu, req.a2, req.a1)>>
      [] req.op = "release" ->
            <<Call("appmenu", "release", surface, appmenu, NoStr, NoStr)>>
      [] OTHER -> <<Unreachable>>

AppMenu_request(appmenu, req, surface) ==
    CASE req.op = "set_address" ->
            LET service_name == req.a1
                object_path == req.a2
            IN  <<Call("appmenu", "set_address", surface, appmenu,
                       service_name, object_path)>>
      [] req.op = "release" ->
            <<Call("appmenu", "release", surface, appmenu, NoStr, NoStr)>>
      [] OTHER -> <<Unreachable>>

\* A faulty variant: the surface is taken from the request, which names none.
Blur_request_request_surface(blur, req, surface) ==
    CASE req.op = "commit" ->
            <<Call("blur", "commit", req.surface, blur, NoStr, NoStr)>>
      [] req.op = "set_region" ->
            <<Call("blur", "set_region", req.surface, blur, as_ref(req.a1), NoStr)>>
      [] req.op = "release" ->
            <<Call("blur", "release", req.surface, blur, NoStr, NoStr)>>
      [] OTHER -> <<Unreachable>>

\* A faulty variant: a SetRegion that names no region is skipped.
Blur_request_none_skipped(blur, req, surface) ==
    CASE req.op = "commit" ->
            <<Call("blur", "commit", surface, blur, NoStr, NoStr)>>
      [] req.op = "set_region" ->
            IF req.a1 = "none"
            THEN <<>>
            ELSE <<Call("blur", "set_region", surface, blur, as_ref(req.a1), NoStr)>>
      [] req.op = "release" ->
            <<Call("blur", "release", surface, blur, NoStr, NoStr)>>
      [] OTHER -> <<Unreachable>>

\* A faulty variant: Commit is forwarded to release.
Blur_request_commit_releases(blur, req, surface) ==
    CASE req.op = "commit" ->
            <<Call("blur", "release", surface, blur, NoStr, NoStr)>>
      [] req.op = "set_region" ->
            <<Call("blur", "set_region", surface, blur, as_ref(req.a1), NoStr)>>
      [] req.op = "release" ->
            <<Call("blur", "release", surface, blur, NoStr, NoStr)>>
      [] OTHER -> <<Unreachable>>

Blur_request(blur, req, surface) ==
    CASE req.op = "commit" ->
            <<Call("blur", "commit", surface, blur, NoStr, NoStr)>>
      [] req.op = "set_region" ->
            <<Call("blur", "set_region", surface, blur, as_ref(req.a1), NoStr)>>
      [] req.op = "release" ->
            <<Call("blur", "release", surface, blur, NoStr, NoStr)>>
      [] OTHER -> <<Unreachable>>

\* A faulty variant: the mode None is replaced by Server before it is forwarded.
Decoration_request_mode_replaced(kde_decoration, req, surface) ==
    CASE req.op = "request_mode" ->
            <<Call("decoration", "request_mode", surface, kde_decoration,
                   IF req.a1 = "None" THEN "Server" ELSE req.a1, NoStr)>>
      [] req.op = "release" ->
            <<Call("decoration", "release", surface, kde_decoration, NoStr, NoStr)>>
      [] OTHER -> <<Unreachable>>

\* A faulty variant: RequestMode is forwarded twice.
Decoration_request_twice(kde_decoration, req, surface) ==
    CASE req.op = "request_mode" ->
            <<Call("decoration", "request_mode", surface, kde_decoration,
                   req.a1, NoStr),
              Call("decoration", "request_mode", surface, kde_decoration,
                   req.a1, NoStr)>>
      [] req.op = "release" ->
            <<Call("decoration", "release", surface, kde_decoration, NoStr, NoStr)>>
      [] OTHER -> <<Unreachable>>

\* A faulty variant: a mode is refused with a protocol error.
Decoration_request_post_error(kde_decoration, req, surface) ==
    CASE req.op = "request_mode" -> <<<<"post_error">>>>
      [] req.op = "release" ->
            <<Call("decoration", "release", surface, kde_decoration, NoStr, NoStr)>>
      [] OTHER -> <<Unreachable>>

Decoration_request(kde_decoration, req, surface) ==
    CASE req.op = "request_mode" ->
            <<Call("decoration", "request_mode", surface, kde_decoration,
                   req.a1, NoStr)>>
      [] req.op = "release" ->
            <<Call("decoration", "release", surface, kde_decoration, NoStr, NoStr)>>
      [] OTHER -> <<Unreachable>>

object_request(e, obj, req, surface) ==
    CASE e = "appmenu" -> AppMenu_request(obj, req, surface)
      [] e = "blur" -> Blur_request(obj, req, surface)
      [] OTHER -> Decoration_request(obj, req, surface)

\* A faulty variant: the destruction of a per-surface object is reported to
\* the host as a release.
destroyed_releases(e, resource, data) ==
    IF data \in Surfaces
    THEN <<Call(e, "release", data, resource, NoStr, NoStr)>>
    ELSE <<>>

\* Dispatch::destroyed, which the runtime calls when an object is destroyed,
\* by its destructor request or with its connection: no Dispatch impl of this
\* code overrides it, so the trait's empty default runs.
destroyed(e, resource, data) == <<>>

\* ---------------------------------------------------------------- runtime

Msg(op, ext, ver, target, newid, surface, a1, a2) ==
    [op |-> op, ext |-> ext, ver |-> ver, target |-> target, newid |-> newid,
     surface |-> surface, a1 |-> a1, a2 |-> a2]

TotalSent == Len(wire["c1"]) + Len(wire["c2"])

\* The id the next new_id argument of a request of client c carries (object
\* ids are local to a connection).
NextId(c) == Len(proxies[c]) + 1

\* Ids a client allocated as managers / as per-surface objects.
ManagersOf(c) == {i \in 1..Len(proxies[c]) : proxies[c][i].kind = "manager"}

ObjectsOf(c) == {i \in 1..Len(proxies[c]) : proxies[c][i].kind = "object"}

\* The request the runtime dispatches next for client c.
NextRequest(c) == wire[c][rd[c] + 1]

CanDispatch(c) == ~panicked /\ conn[c] = "up" /\ rd[c] < Len(wire[c])

\* The steps of a handler run in order on the client's part of the state; a
\* callback sees the data the object it is given holds at that moment ("none"
\* before the object is finalized). New objects are of extension e and of the
\* given kind.
RECURSIVE Run(_, _, _, _, _)
Run(steps, st, e, kind, ver) ==
    IF steps = <<>> \/ st.panic
    THEN st
    ELSE LET s == steps[1]
             rest == Tail(steps)
         IN  CASE s[1] = "init" ->
                    Run(rest,
                        [st EXCEPT
                            !.table = (s[2] :> [ext |-> e, kind |-> kind,
                                                ver |-> ver, data |-> s[3]]) @@ @,
                            !.created = @ \cup {s[2]}],
                        e, kind, ver)
               [] s[1] = "call" ->
                    LET data == IF s[2].obj \in DOMAIN st.table
                                THEN st.table[s[2].obj].data
                                ELSE "none"
                    IN  IF s[2].surface = DataUnwrap /\ data = "none"
                        THEN [st EXCEPT !.panic = TRUE]
                        ELSE Run(rest,
                                 [st EXCEPT
                                     !.calls = Append(@,
                                         [s[2] EXCEPT
                                             !.seen = data,
                                             !.surface = IF @ = DataUnwrap
                                                         THEN data ELSE @])],
                                 e, kind, ver)
               [] s[1] = "event" ->
                    Run(rest, [st EXCEPT !.events = Append(@, s[2])], e, kind, ver)
               [] s[1] = "post_error" ->
                    Run(rest, [st EXCEPT !.errors = Append(@, "core")], e, kind, ver)
               [] s[1] = "filter" ->
                    Run(rest, [st EXCEPT !.evals = Append(@, s[2])], e, kind, ver)
               [] OTHER -> [st EXCEPT !.panic = TRUE]

\* The callbacks made while the runtime destroys the objects ids of table t,
\* in the order of their ids.
RECURSIVE DestroyedCalls(_, _)
DestroyedCalls(t, ids) ==
    IF ids = {}
    THEN <<>>
    ELSE LET i == CHOOSE i \in ids : \A j \in ids : i <= j
             steps == destroyed(t[i].ext, i, t[i].data)
         IN  [k \in 1..Len(steps) |-> [steps[k][2] EXCEPT !.seen = t[i].data]]
                 \o DestroyedCalls(t, ids \ {i})

\* One dispatch of request req of client c to a handler whose steps are given.
\* Once the handler returned, the target of a destructor request is removed
\* from the table, and a client that was posted an error is killed; destroyed
\* is called for every object that leaves the table.
Apply(c, steps, e, kind, ver, req) ==
    LET st == Run(steps,
                  [table |-> table[c], created |-> created[c], calls |-> calls[c],
                   events |-> events[c], errors |-> errors[c], evals |-> evals[c],
                   panic |-> FALSE],
                  e, kind, ver)
        dead == st.errors # errors[c]
        t2 == CASE st.panic -> st.table
                [] dead -> <<>>
                [] req.op \in Destructors ->
                      [i \in DOMAIN st.table \ {req.target} |-> st.table[i]]
                [] OTHER -> st.table
    IN  /\ table' = [table EXCEPT ![c] = t2]
        /\ created' = [created EXCEPT ![c] = st.created]
        /\ calls' = [calls EXCEPT ![c] =
                        st.calls \o DestroyedCalls(st.table, DOMAIN st.table \ DOMAIN t2)]
        /\ events' = [events EXCEPT ![c] = st.events]
        /\ errors' = [errors EXCEPT ![c] = st.errors]
        /\ evals' = [evals EXCEPT ![c] = st.evals]
        /\ conn' = [conn EXCEPT ![c] = IF dead /\ ~st.panic THEN "down" ELSE @]
        /\ panicked' = st.panic
        /\ rd' = [rd EXCEPT ![c] = @ + 1]

\* The default modes a host constructs the decoration state with.
DefaultModes == {"Client", "Server"}

\* The sets of extensions a host registers. The three extensions share no
\* state and no code path, so each behaviour has the host construct the state
\* of one of them, with new or with new_with_filter and one of the Filters.
Registered == {{e} : e \in Exts}

Init ==
    /\ \E r \in Registered :
          /\ global_data \in {[e \in r |-> new(e)]}
                             \cup {[e \in r |-> new_with_filter(e, f)] : f \in Filters}
          /\ default_mode \in (IF "decoration" \in r THEN DefaultModes ELSE {NoStr})
          /\ display = [e \in r |-> create_global(HostGlobals)] @@ HostGlobals
          /\ kde_state = [e \in r |-> KdeState(create_global(HostGlobals))]
    /\ conn = [c \in Clients |-> "up"]
    /\ wire = [c \in Clients |-> <<>>]
    /\ rd = [c \in Clients |-> 0]
    /\ proxies = [c \in Clients |-> <<>>]
    /\ table = [c \in Clients |-> <<>>]
    /\ created = [c \in Clients |-> {}]
    /\ calls = [c \in Clients |-> <<>>]
    /\ events = [c \in Clients |-> <<>>]
    /\ errors = [c \in Clients |-> <<>>]
    /\ evals = [c \in Clients |-> <<>>]
    /\ panicked = FALSE

\* ----------------------------------------------------- what clients send

CanSend(c) == ~panicked /\ conn[c] = "up" /\ TotalSent < MaxMsgs

Send(c, m) ==
    /\ wire' = [wire EXCEPT ![c] = Append(@, m)]
    /\ UNCHANGED <<global_data, display, kde_state, default_mode, conn, rd,
                   table, created, calls, events, errors, evals, panicked>>

\* wl_registry.bind of the manager global of extension e, at its version.
SendBind(c, e) ==
    /\ CanSend(c)
    /\ proxies' = [proxies EXCEPT ![c] =
                      Append(@, [ext |-> e, kind |-> "manager",
                                 ver |-> global_data[e].version, surface |-> NoStr])]
    /\ Send(c, Msg("bind", e, global_data[e].version, 0, NextId(c), NoStr, NoStr, NoStr))

SendCreate(c, mgr, s) ==
    /\ CanSend(c)
    /\ proxies' = [proxies EXCEPT ![c] =
                      Append(@, [ext |-> proxies[c][mgr].ext, kind |-> "object",
                                 ver |-> proxies[c][mgr].ver, surface |-> s])]
    /\ Send(c, Msg("create", proxies[c][mgr].ext, proxies[c][mgr].ver, mgr,
                   NextId(c), s, NoStr, NoStr))

\* The other requests of a manager: unset (blur), release (appmenu, version 2).
SendManager(c, mgr, op, s) ==
    /\ CanSend(c)
    /\ proxies' = proxies
    /\ Send(c, Msg(op, proxies[c][mgr].ext, proxies[c][mgr].ver, mgr, 0, s,
                   NoStr, NoStr))

\* The arguments a request of a per-surface object carries.
Args(op) ==
    CASE op = "set_address" -> Addresses
      [] op = "set_region" -> Regions \X {NoStr}
      [] op = "request_mode" -> Modes \X {NoStr}
      [] OTHER -> {<<NoStr, NoStr>>}

SendObject(c, obj, op, a) ==
    /\ CanSend(c)
    /\ proxies' = proxies
    /\ Send(c, Msg(op, proxies[c][obj].ext, proxies[c][obj].ver, obj, 0, NoStr,
                   a[1], a[2]))

\* ------------------------------------------------ what the runtime does

\* The connection ends: every object of the client is destroyed.
Teardown(c) ==
    /\ conn' = [conn EXCEPT ![c] = "down"]
    /\ table' = [table EXCEPT ![c] = <<>>]
    /\ calls' = [calls EXCEPT ![c] = @ \o DestroyedCalls(table[c], DOMAIN table[c])]

Disconnect(c) ==
    /\ ~panicked
    /\ conn[c] = "up"
    /\ Teardown(c)
    /\ UNCHANGED <<global_data, display, kde_state, default_mode, wire, rd,
                   proxies, created, events, errors, evals, panicked>>

\* A bind of a global the client may not see, or a request to an id that is
\* not in the object table: the runtime posts a protocol error and kills the
\* client. No handler of this code runs.
Reject(c) ==
    /\ CanDispatch(c)
    /\ \/ /\ NextRequest(c).op = "bind"
          /\ LET cv == can_view(NextRequest(c).ext, c,
                                global_data[NextRequest(c).ext])
             IN  /\ ~cv.ret
                 /\ evals' = [evals EXCEPT ![c] = @ \o cv.evals]
          /\ errors' = [errors EXCEPT ![c] = Append(@, "invalid_global")]
       \/ /\ NextRequest(c).op # "bind"
          /\ NextRequest(c).target \notin DOMAIN table[c]
          /\ errors' = [errors EXCEPT ![c] = Append(@, "invalid_object")]
          /\ UNCHANGED evals
    /\ Teardown(c)
    /\ rd' = [rd EXCEPT ![c] = @ + 1]
    /\ UNCHANGED <<global_data, display, kde_state, default_mode, wire,
                   proxies, created, events, panicked>>

DispatchBind(c) ==
    /\ CanDispatch(c)
    /\ NextRequest(c).op = "bind"
    /\ LET req == NextRequest(c)
           cv == can_view(req.ext, c, global_data[req.ext])
       IN  /\ cv.ret
           /\ Apply(c, [k \in 1..Len(cv.evals) |-> <<"filter", cv.evals[k]>>]
                          \o bind(req.ext, default_mode, c, req.newid,
                                  global_data[req.ext]),
                    req.ext, "manager", req.ver, req)
    /\ UNCHANGED <<global_data, display, kde_state, default_mode, wire, proxies>>

DispatchManager(c) ==
    /\ CanDispatch(c)
    /\ NextRequest(c).op # "bind"
    /\ NextRequest(c).target \in DOMAIN table[c]
    /\ table[c][NextRequest(c).target].kind = "manager"
    /\ LET req == NextRequest(c)
           mgr == table[c][req.target]
       IN  Apply(c, manager_request(mgr.ext, req), mgr.ext, "object", mgr.ver, req)
    /\ UNCHANGED <<global_data, display, kde_state, default_mode, wire, proxies>>

DispatchObject(c) ==
    /\ CanDispatch(c)
    /\ NextRequest(c).op # "bind"
    /\ NextRequest(c).target \in DOMAIN table[c]
    /\ table[c][NextRequest(c).target].kind = "object"
    /\ LET req == NextRequest(c)
           obj == table[c][req.target]
       IN  Apply(c, object_request(obj.ext, req.target, req, obj.data),
                 obj.ext, "object", obj.ver, req)
    /\ UNCHANGED <<global_data, display, kde_state, default_mode, wire, proxies>>

Next ==
    \/ \E c \in Clients : \E e \in DOMAIN global_data : SendBind(c, e)
    \/ \E c \in Clients : \E mgr \in ManagersOf(c) : \E s \in SurfacesOf(c) :
          SendCreate(c, mgr, s)
    \/ \E c \in Clients : \E mgr \in ManagersOf(c) :
          \E op \in ManagerRequest(proxies[c][mgr].ext, proxies[c][mgr].ver) \ {"create"} :
             \E s \in (IF op = "unset" THEN SurfacesOf(c) ELSE {NoStr}) :
                SendManager(c, mgr, op, s)
    \/ \E c \in Clients : \E obj \in ObjectsOf(c) :
          \E op \in Request(proxies[c][obj].ext) : \E a \in Args(op) :
             SendObject(c, obj, op, a)
    \/ \E c \in Clients : Disconnect(c)
    \/ \E c \in Clients : Reject(c)
    \/ \E c \in Clients : DispatchBind(c)
    \/ \E c \in Clients : DispatchManager(c)
    \/ \E c \in Clients : DispatchObject(c)

Spec == Init /\ [][Next]_vars

\* The host constructs the state of the appmenu or of the blur extension and
\* the manager global holds the data the function data gives for it.
InitFrom(data) ==
    /\ Init
    /\ \E e \in {"appmenu", "blur"} : global_data = [x \in {e} |-> data[x]]

\* The host constructs the state with new.
InitNew == InitFrom([e \in Exts |-> new(e)])

\* The host constructs the state with new_with_filter and |_| true.
InitAlwaysTrue ==
    InitFrom([e \in Exts |-> new_with_filter(e, [c \in Clients |-> TRUE])])

SpecNew == InitNew /\ [][Next]_vars

SpecAlwaysTrue == InitAlwaysTrue /\ [][Next]_vars

\* ------------------------------------------------------------ properties

NewFns == {"new_appmenu", "new_blur", "new_decoration"}

\* The runtime refused the last request it took from client c.
Rejected(c) ==
    \E k \in 1..Len(errors[c]) : errors[c][k] \in {"invalid_global", "invalid_object"}

\* The requests of client c that were handed to a handler of this code.
Handled(c) == SubSeq(wire[c], 1, IF Rejected(c) THEN rd[c] - 1 ELSE rd[c])

\* Those sent on the object id, and the callbacks made for that object after
\* its creation.
RequestsOn(c, id) == SelectSeq(Handled(c), LAMBDA m : m.target = id)

CallsOn(c, id) == SelectSeq(calls[c], LAMBDA x : x.obj = id /\ x.fn \notin NewFns)

\* The Create requests handed to a handler, and the "object created" callbacks.
Creates(c) == SelectSeq(Handled(c), LAMBDA m : m.op = "create")

NewCalls(c) == SelectSeq(calls[c], LAMBDA x : x.fn \in NewFns)

\* The position of the request of client c that carried id as its new_id.
SentAt(c, id) == CHOOSE k \in 1..Len(wire[c]) : wire[c][k].newid = id

\* The callback a request on a per-surface object of extension e is to make.
Expected(e, id, surface, req) ==
    [ext |-> e, fn |-> req.op, surface |-> surface, obj |-> id,
     a1 |-> req.a1, a2 |-> req.a2, seen |-> surface]

\* C1: a per-surface object is associated with the surface its Create request
\* supplied, and stays so whatever requests are dispatched later.
C1_SurfaceFixed ==
    \A c \in Clients : \A id \in DOMAIN table[c] :
        table[c][id].kind = "object" =>
            /\ table[c][id].data = proxies[c][id].surface
            /\ table[c][id].data = wire[c][SentAt(c, id)].surface

\* An object is alive and requests sent after its Create were dispatched.
C1_Witness ==
    \E c \in Clients : \E id \in DOMAIN table[c] :
        /\ table[c][id].kind = "object"
        /\ rd[c] >= SentAt(c, id) + 2
        /\ \E k \in (SentAt(c, id) + 1)..rd[c] : wire[c][k].op = "create"

\* C2: a client the filter of the manager global is false for has no bind
\* succeed, has no request handled and causes no callback and no event; a
\* client the filter is true for has every bind succeed.
C2_FilteredClientsShutOut ==
    \A c \in Clients : \A e \in DOMAIN global_data :
        /\ ~global_data[e].filter[c] =>
              /\ table[c] = <<>>
              /\ created[c] = {}
              /\ calls[c] = <<>>
              /\ events[c] = <<>>
              /\ Handled(c) = <<>>
        /\ global_data[e].filter[c] =>
              \A k \in 1..rd[c] :
                  wire[c][k].op = "bind" => wire[c][k].newid \in created[c]

\* A filtered client sent a bind and a Create, and the runtime took the bind.
C2_Witness ==
    \E c \in Clients : \E e \in DOMAIN global_data :
        /\ ~global_data[e].filter[c]
        /\ Len(wire[c]) >= 2
        /\ wire[c][2].op \in {"create", "unset"}
        /\ rd[c] >= 1

\* C3: the callbacks made for a per-surface object are, in order, one per
\* request handled on it.
C3_OneCallbackPerRequestInOrder ==
    \A c \in Clients : \A id \in ObjectsOf(c) :
        [k \in 1..Len(CallsOn(c, id)) |-> CallsOn(c, id)[k].fn]
            = [k \in 1..Len(RequestsOn(c, id)) |-> RequestsOn(c, id)[k].op]

\* Two requests were handled on one object.
C3_Witness ==
    \E c \in Clients : \E id \in ObjectsOf(c) :
        /\ Len(RequestsOn(c, id)) >= 2
        /\ RequestsOn(c, id)[1].op # RequestsOn(c, id)[2].op

\* C4: once the release callback was made for an object, the object is out of
\* the object table and no further callback is made for it, a second release
\* included.
C4_ReleaseTerminal ==
    \A c \in Clients : \A k \in 1..Len(calls[c]) :
        calls[c][k].fn = "release" =>
            /\ calls[c][k].obj \notin DOMAIN table[c]
            /\ \A j \in (k + 1)..Len(calls[c]) : calls[c][j].obj # calls[c][k].obj

\* A request sent on an object after its Release was taken by the runtime.
C4_Witness ==
    \E c \in Clients : \E k \in 1..Len(calls[c]) :
        /\ calls[c][k].fn = "release"
        /\ \E i, j \in 1..rd[c] :
              /\ i < j
              /\ wire[c][i].op = "release"
              /\ wire[c][i].target = calls[c][k].obj
              /\ wire[c][j].target = calls[c][k].obj

\* The decoration managers client c bound, in the order of their binds.
DecorationBinds(c) ==
    SelectSeq(Handled(c), LAMBDA m : m.op = "bind" /\ m.ext = "decoration")

\* C5: every successful bind of the decoration manager sends the client one
\* default_mode event with the state's default mode, and a manager object is
\* in the object table (so that requests on it are dispatched) only once its
\* event is sent.
C5_DefaultModeOnBind ==
    \A c \in Clients :
        /\ events[c] = [k \in 1..Len(DecorationBinds(c)) |->
                           [ev |-> "default_mode",
                            obj |-> DecorationBinds(c)[k].newid,
                            mode |-> default_mode]]
        /\ \A id \in DOMAIN table[c] :
              (table[c][id].kind = "manager" /\ table[c][id].ext = "decoration")
                 => \E k \in 1..Len(events[c]) : events[c][k].obj = id

\* A client bound the decoration manager and a request on it was handled.
C5_Witness ==
    \E c \in Clients :
        /\ Len(DecorationBinds(c)) >= 1
        /\ \E k \in 1..Len(Handled(c)) :
              /\ Handled(c)[k].op = "create"
              /\ Handled(c)[k].target = DecorationBinds(c)[1].newid

\* C6: the "object created" callbacks are, in order, one per Create request
\* handled, each with the surface of the request and the new object, made
\* when the object already holds that surface as its data.
C6_CreatedCallbackOncePerCreate ==
    \A c \in Clients :
        NewCalls(c) = [k \in 1..Len(Creates(c)) |->
                          [ext |-> Creates(c)[k].ext,
                           fn |-> CASE Creates(c)[k].ext = "appmenu" -> "new_appmenu"
                                    [] Creates(c)[k].ext = "blur" -> "new_blur"
                                    [] OTHER -> "new_decoration",
                           surface |-> Creates(c)[k].surface,
                           obj |-> Creates(c)[k].newid,
                           a1 |-> NoStr, a2 |-> NoStr,
                           seen |-> Creates(c)[k].surface]]

\* Two Create requests of one client were handled.
C6_Witness == \E c \in Clients : Len(Creates(c)) >= 2 /\ Len(NewCalls(c)) >= 2

\* The Unset requests of client c for surface s that were handled.
Unsets(c, s) == SelectSeq(Handled(c), LAMBDA m : m.op = "unset" /\ m.surface = s)

\* C7: for a surface a client never created a blur object for, the callbacks
\* made with that surface are the unset callbacks, one per Unset request, no
\* object holds that surface, and the only objects finalized are those a bind
\* or a Create request named.
C7_UnsetWithoutObject ==
    \A c \in Clients : \A s \in SurfacesOf(c) :
        (\A id \in ObjectsOf(c) : proxies[c][id].surface # s) =>
            /\ SelectSeq(calls[c], LAMBDA x : x.surface = s)
                  = [k \in 1..Len(Unsets(c, s)) |->
                        [ext |-> "blur", fn |-> "unset", surface |-> s, obj |-> 0,
                         a1 |-> NoStr, a2 |-> NoStr, seen |-> "none"]]
            /\ \A id \in DOMAIN table[c] : table[c][id].data # s
            /\ created[c] \subseteq
                  {Handled(c)[k].newid : k \in 1..Len(Handled(c))} \ {0}

\* Unset was handled for a surface its client made no blur object for.
C7_Witness ==
    \E c \in Clients : \E s \in SurfacesOf(c) :
        /\ \A id \in ObjectsOf(c) : proxies[c][id].surface # s
        /\ Len(Unsets(c, s)) >= 1
        /\ ObjectsOf(c) = {}

\* C8: no request a client can send at the advertised version of a manager or
\* of a per-surface object reaches unreachable!().
C8_DispatchTotal == ~panicked

\* C9: a per-surface object leaves the object table only when a Release
\* request on it is dispatched or when the runtime tears its client's
\* connection down (the client disconnected, or the runtime refused one of
\* its requests); this code posts no error that would do so. An object that
\* left the table does not come back.
C9_OnlyReleaseOrTeardown ==
    [][\A c \in Clients : \A id \in created[c] :
          /\ (id \in DOMAIN table[c] /\ id \notin DOMAIN table'[c]) =>
                \/ /\ rd'[c] = rd[c] + 1
                   /\ wire[c][rd'[c]].op \in Destructors
                   /\ wire[c][rd'[c]].target = id
                \/ /\ conn[c] = "up"
                   /\ conn'[c] = "down"
                   /\ \A k \in 1..Len(errors'[c]) : errors'[c][k] # "core"
          /\ id \notin DOMAIN table[c] => id \notin DOMAIN table'[c]]_vars

\* An object was released while another object of the same client stayed
\* in the table.
C9_Witness ==
    \E c \in Clients : \E id \in created[c] :
        /\ proxies[c][id].kind = "object"
        /\ id \notin DOMAIN table[c]
        /\ conn[c] = "up"
        /\ \E other \in DOMAIN table[c] : table[c][other].kind = "object"

\* C10: the callbacks made for an appmenu object are those of the requests
\* handled on it, in order: set_address with the object's surface and the two
\* strings of the request, release with the object and its surface.
C10_SetAddressThenRelease ==
    \A c \in Clients : \A id \in ObjectsOf(c) :
        proxies[c][id].ext = "appmenu" =>
            CallsOn(c, id) = [k \in 1..Len(RequestsOn(c, id)) |->
                                 Expected("appmenu", id, proxies[c][id].surface,
                                          RequestsOn(c, id)[k])]

\* SetAddress("org.example.App", "/MenuBar") and then Release were handled.
C10_Witness ==
    \E c \in Clients : \E id \in ObjectsOf(c) :
        /\ Len(CallsOn(c, id)) = 2
        /\ CallsOn(c, id)[1].fn = "set_address"
        /\ CallsOn(c, id)[1].a1 = "org.example.App"
        /\ CallsOn(c, id)[1].a2 = "/MenuBar"
        /\ CallsOn(c, id)[2].fn = "release"

\* Every request name of the three extensions, and those a handler's
\* interface does not define: the request enums are non-exhaustive, so each
\* handler's match ends in a catch-all arm.
AllRequests ==
    UNION {ManagerRequest(e, Version(e)) \cup Request(e) : e \in Exts}

ForeignManagerRequests(e) == AllRequests \ ManagerRequest(e, Version(e))

ForeignRequests(e) == AllRequests \ Request(e)

\* The handled requests of client c that are not binds.
Dispatched(c) == SelectSeq(Handled(c), LAMBDA m : m.op # "bind")

\* C11: this code never posts a protocol error; every request an interface
\* defines makes its one host callback and nothing else; a request variant
\* outside the defined set ends in the fatal unreachable condition, with no
\* error posted, no silent drop and no callback.
C11_NeverPostsError ==
    /\ \A c \in Clients : \A k \in 1..Len(errors[c]) : errors[c][k] # "core"
    /\ \A c \in Clients : Len(calls[c]) = Len(Dispatched(c))
    /\ \A e \in Exts : \A s \in Surfaces :
          /\ \A op \in ForeignManagerRequests(e) :
                manager_request(e, Msg(op, e, Version(e), 1, 2, s, NoStr, NoStr))
                    = <<Unreachable>>
          /\ \A op \in ForeignRequests(e) :
                object_request(e, 2, Msg(op, e, Version(e), 2, 0, NoStr, NoStr, NoStr), s)
                    = <<Unreachable>>

\* C12: the state struct of the appmenu and of the blur extension holds the
\* GlobalId that create_global returned at construction; whatever binds and
\* requests are dispatched afterwards, the struct is never written again and
\* global() returns that id.
C12_GlobalIdStable ==
    /\ [](\A e \in DOMAIN kde_state \cap {"appmenu", "blur"} :
             global(kde_state[e]) = display[e])
    /\ [][kde_state' = kde_state /\ display' = display]_vars

\* A bind and two requests were handled and global() still returns the id the
\* display holds the manager global under.
C12_Witness ==
    \E e \in DOMAIN kde_state \cap {"appmenu", "blur"} : \E c \in Clients :
        /\ Len(Handled(c)) >= 3
        /\ Len(calls[c]) >= 2
        /\ global(kde_state[e]) = display[e]
        /\ display[e] \notin {HostGlobals[g] : g \in DOMAIN HostGlobals}

\* The bind attempts of client c the runtime took up, accepted or refused.
BindAttempts(c) == SelectSeq(SubSeq(wire[c], 1, rd[c]), LAMBDA m : m.op = "bind")

\* C13: the stored predicate is evaluated exactly once for each bind attempt,
\* on the binding client, by the visibility check that precedes the bind
\* callback; the check returns the predicate's result (the manager of the
\* attempt is finalized exactly when the evaluation returned true), and the
\* bind callback makes no evaluation of its own.
C13_FilterOncePerBind ==
    \A c \in Clients :
        /\ Len(evals[c]) = Len(BindAttempts(c))
        /\ \A k \in 1..Len(evals[c]) :
              LET m == BindAttempts(c)[k]
              IN  /\ evals[c][k].arg = c
                  /\ evals[c][k].ret = global_data[m.ext].filter[c]
                  /\ evals[c][k].ret <=> m.newid \in created[c]

\* One client was refused and, with a filter that is not constant, the other
\* bound twice: three evaluations, one of them false.
C13_Witness ==
    \E c, d \in Clients :
        /\ Len(evals[c]) = 2
        /\ Len(evals[d]) = 1
        /\ evals[c][2].ret
        /\ ~evals[d][1].ret
        /\ Cardinality(created[c]) >= 2

\* The requests handled on per-surface objects of client c, and the callbacks
\* made for per-surface objects after their creation, each in order.
ObjectRequests(c) == SelectSeq(Handled(c), LAMBDA m : m.target \in ObjectsOf(c))

ObjectCalls(c) == SelectSeq(calls[c], LAMBDA x : x.fn \notin NewFns \cup {"unset"})

\* C14: every per-object callback (set_address, commit, set_region,
\* request_mode, release) is made with the object the request was sent on and
\* with the surface that object was created with, in the order of the
\* requests, however the requests of several objects, surfaces and clients
\* interleave.
C14_CallbackOnOwnObjectAndSurface ==
    \A c \in Clients :
        ObjectCalls(c) =
            [k \in 1..Len(ObjectRequests(c)) |->
                LET req == ObjectRequests(c)[k]
                IN  Expected(proxies[c][req.target].ext, req.target,
                             wire[c][SentAt(c, req.target)].surface, req)]

\* Two objects of one client live on different surfaces, and a request on
\* the one created first was handled after the other was created.
C14_Witness ==
    \E c \in Clients : \E a, b \in DOMAIN table[c] :
        /\ a < b
        /\ table[c][a].kind = "object"
        /\ table[c][b].kind = "object"
        /\ table[c][a].data # table[c][b].data
        /\ ObjectCalls(c) # <<>>
        /\ ObjectCalls(c)[1].obj = a
        /\ ObjectCalls(c)[1].surface = table[c][a].data

\* The Release requests handled on the object id of client c.
ReleasesOn(c, id) == SelectSeq(RequestsOn(c, id), LAMBDA m : m.op = "release")

\* C15: a Create succeeds however many live objects of the extension the
\* surface already has: every handled Create yields an object of its own,
\* finalized with the surface and announced by its own "object created"
\* callback, and the object stays in the table with that surface until a
\* Release on itself is handled or the connection is torn down; a Release
\* handled on another object of the same surface does not remove it.
C15_ManyObjectsPerSurface ==
    \A c \in Clients :
        /\ \A k \in 1..Len(Creates(c)) :
              LET id == Creates(c)[k].newid
              IN  /\ id \in created[c]
                  /\ \A j \in 1..Len(Creates(c)) : j # k => Creates(c)[j].newid # id
                  /\ NewCalls(c)[k].obj = id
                  /\ NewCalls(c)[k].surface = Creates(c)[k].surface
                  /\ (conn[c] = "up" /\ ReleasesOn(c, id) = <<>>) =>
                        /\ id \in DOMAIN table[c]
                        /\ table[c][id].data = Creates(c)[k].surface
        /\ Len(NewCalls(c)) = Len(Creates(c))
        /\ \A k \in 1..Len(errors[c]) : errors[c][k] # "core"

\* Two objects were created for the same surface and the first was released:
\* the second is still in the table.
C15_Witness ==
    \E c \in Clients : \E a, b \in created[c] :
        /\ a # b
        /\ proxies[c][a].kind = "object"
        /\ proxies[c][b].kind = "object"
        /\ proxies[c][a].surface = proxies[c][b].surface
        /\ ReleasesOn(c, a) # <<>>
        /\ a \notin DOMAIN table[c]
        /\ b \in DOMAIN table[c]
        /\ table[c][b].data = proxies[c][b].surface

\* The SetRegion requests handled on the blur object id of client c, and the
\* set_region callbacks made for it.
SetRegionsOn(c, id) == SelectSeq(RequestsOn(c, id), LAMBDA m : m.op = "set_region")

SetRegionCallsOn(c, id) == SelectSeq(CallsOn(c, id), LAMBDA x : x.fn = "set_region")

\* C16: every SetRegion handled on a blur object makes exactly one set_region
\* callback with the object's surface, the object and the request's region:
\* the region itself when the request names one, and none when it names
\* none; a request without a region posts no error, is not skipped and does
\* not reach the unreachable branch.
C16_SetRegionBothShapes ==
    \A c \in Clients : \A id \in ObjectsOf(c) :
        proxies[c][id].ext = "blur" =>
            /\ SetRegionCallsOn(c, id) =
                  [k \in 1..Len(SetRegionsOn(c, id)) |->
                      [ext |-> "blur", fn |-> "set_region",
                       surface |-> proxies[c][id].surface, obj |-> id,
                       a1 |-> SetRegionsOn(c, id)[k].a1, a2 |-> NoStr,
                       seen |-> proxies[c][id].surface]]
            /\ SetRegionsOn(c, id) # <<>> =>
                  /\ ~panicked
                  /\ \A k \in 1..Len(errors[c]) : errors[c][k] # "core"

\* A SetRegion without a region and one with a region were handled on the
\* same object.
C16_Witness ==
    \E c \in Clients : \E id \in ObjectsOf(c) :
        /\ Len(SetRegionCallsOn(c, id)) = 2
        /\ SetRegionCallsOn(c, id)[1].a1 = "none"
        /\ SetRegionCallsOn(c, id)[2].a1 = "r1"
        /\ id \in DOMAIN table[c]

\* The RequestMode requests handled on the decoration object id of client c,
\* and the request_mode callbacks made for it.
RequestModesOn(c, id) ==
    SelectSeq(RequestsOn(c, id), LAMBDA m : m.op = "request_mode")

RequestModeCallsOn(c, id) ==
    SelectSeq(CallsOn(c, id), LAMBDA x : x.fn = "request_mode")

\* C17: every RequestMode handled on a decoration object makes one
\* request_mode callback with the object's surface, the object and the mode
\* of the request unchanged, for every mode, whatever the default mode of the
\* state and whatever modes were requested before; no mode is refused with a
\* protocol error or replaced, and no event is sent in response: the only
\* events a client gets are the default_mode events of its binds.
C17_RequestModePassThrough ==
    \A c \in Clients :
        /\ \A id \in ObjectsOf(c) :
              proxies[c][id].ext = "decoration" =>
                  RequestModeCallsOn(c, id) =
                      [k \in 1..Len(RequestModesOn(c, id)) |->
                          [ext |-> "decoration", fn |-> "request_mode",
                           surface |-> proxies[c][id].surface, obj |-> id,
                           a1 |-> RequestModesOn(c, id)[k].a1, a2 |-> NoStr,
                           seen |-> proxies[c][id].surface]]
        /\ Len(events[c]) = Len(DecorationBinds(c))
        /\ \A k \in 1..Len(events[c]) :
              /\ events[c][k].ev = "default_mode"
              /\ events[c][k].obj \in ManagersOf(c)
        /\ \A k \in 1..Len(errors[c]) : errors[c][k] # "core"

\* Two modes, both other than the default mode and the second one None, were
\* requested on one object and forwarded.
C17_Witness ==
    \E c \in Clients : \E id \in ObjectsOf(c) :
        /\ Len(RequestModeCallsOn(c, id)) = 2
        /\ RequestModeCallsOn(c, id)[1].a1 # default_mode
        /\ RequestModeCallsOn(c, id)[2].a1 = "None"
        /\ RequestModeCallsOn(c, id)[1].a1 # "None"
        /\ id \in DOMAIN table[c]
        /\ Len(events[c]) = 1

\* The release callbacks made for the object id of client c.
ReleaseCallsOn(c, id) == SelectSeq(CallsOn(c, id), LAMBDA x : x.fn = "release")

\* The requests client c sent were all taken up and none was refused.
Drained(c) == rd[c] = Len(wire[c]) /\ ~Rejected(c)

\* C18: the release callback is made only for a Release request: an object
\* has one release callback if a Release on it was handled and none
\* otherwise. When the connection of a client ends, its objects leave the
\* table and no release callback is made for those it did not release. Once
\* everything a client sent is handled, the count is 1 for the objects it
\* sent Release on and 0 for the others.
C18_ReleaseOnlyOnRequest ==
    \A c \in Clients :
        /\ conn[c] = "down" => DOMAIN table[c] = {}
        /\ \A id \in ObjectsOf(c) :
              /\ Len(ReleaseCallsOn(c, id)) = Len(ReleasesOn(c, id))
              /\ Len(ReleaseCallsOn(c, id)) <= 1
              /\ Drained(c) =>
                    (Len(ReleaseCallsOn(c, id)) = 1
                        <=> \E k \in 1..Len(wire[c]) :
                               /\ wire[c][k].target = id
                               /\ wire[c][k].op = "release")

\* A client released one of its two objects and then disconnected: both
\* left the table, one with a release callback and one with none.
C18_Witness ==
    \E c \in Clients : \E a, b \in created[c] :
        /\ conn[c] = "down"
        /\ errors[c] = <<>>
        /\ proxies[c][a].kind = "object"
        /\ proxies[c][b].kind = "object"
        /\ Len(ReleaseCallsOn(c, a)) = 1
        /\ ReleasesOn(c, b) = <<>>
        /\ ReleaseCallsOn(c, b) = <<>>
        /\ DOMAIN table[c] = {}

\* C19: the dispatch of Unset(S), also while blur objects of S are alive,
\* makes the unset callback with S and nothing else: no object leaves the
\* table, no object's surface changes, no release callback is made, no event
\* and no error is sent; the requests handled on the blur objects, before
\* and after, each have their one callback.
C19_UnsetLeavesObjects ==
    /\ [][\A c \in Clients :
             (/\ rd'[c] = rd[c] + 1
              /\ wire[c][rd'[c]].op = "unset"
              /\ errors'[c] = errors[c])
                 => /\ calls'[c] = Append(calls[c],
                                       [ext |-> "blur", fn |-> "unset",
                                        surface |-> wire[c][rd'[c]].surface,
                                        obj |-> 0, a1 |-> NoStr, a2 |-> NoStr,
                                        seen |-> "none"])
                    /\ table'[c] = table[c]
                    /\ created'[c] = created[c]
                    /\ events'[c] = events[c]
                    /\ conn'[c] = conn[c]
                    /\ ~panicked']_vars
    /\ [](\A c \in Clients : \A id \in ObjectsOf(c) :
             proxies[c][id].ext = "blur" =>
                 /\ Len(CallsOn(c, id)) = Len(RequestsOn(c, id))
                 /\ \A k \in 1..Len(CallsOn(c, id)) :
                       /\ CallsOn(c, id)[k].fn = RequestsOn(c, id)[k].op
                       /\ CallsOn(c, id)[k].surface = proxies[c][id].surface)

\* Unset was handled for the surface of a live blur object, and a Commit on
\* that object was handled after it: the object is still in the table.
C19_Witness ==
    \E c \in Clients : \E id \in DOMAIN table[c] :
        /\ table[c][id].kind = "object"
        /\ Len(calls[c]) = 3
        /\ calls[c][2].fn = "unset"
        /\ calls[c][2].surface = table[c][id].data
        /\ calls[c][3].fn = "commit"
        /\ calls[c][3].obj = id
        /\ calls[c][3].surface = table[c][id].data

\* The binds of client c that were handed to a bind callback.
Binds(c) == SelectSeq(Handled(c), LAMBDA m : m.op = "bind")

\* C20: binding the appmenu or the blur manager sends no event and makes no
\* host callback: it only finalizes the manager object, with unit data. A
\* client of these two extensions never gets an event, and its callbacks are
\* as many as its handled requests that are not binds and do not reach the
\* unreachable branch; of the three extensions the decoration bind alone
\* sends an event, one per bind.
C20_BindIsSilent ==
    \A c \in Clients :
        /\ \A k \in 1..Len(Binds(c)) :
              LET m == Binds(c)[k]
              IN  /\ m.newid \in created[c]
                  /\ m.newid \in DOMAIN table[c] =>
                        /\ table[c][m.newid].kind = "manager"
                        /\ table[c][m.newid].data = "unit"
                  /\ \A j \in 1..Len(calls[c]) : calls[c][j].obj # m.newid
        /\ Len(events[c]) =
              Len(SelectSeq(Binds(c), LAMBDA m : m.ext \notin {"appmenu", "blur"}))
        /\ Len(calls[c]) <= Len(Dispatched(c))
        /\ Binds(c) = Handled(c) => calls[c] = <<>>

\* A client bound the appmenu or the blur manager twice and nothing else of
\* it was handled: two managers with unit data, no event, no callback.
C20_Witness ==
    \E c \in Clients :
        /\ Len(Binds(c)) = 2
        /\ Binds(c)[1].ext \in {"appmenu", "blur"}
        /\ Handled(c) = Binds(c)
        /\ \A k \in 1..2 : Binds(c)[k].newid \in DOMAIN table[c]
        /\ events[c] = <<>>
        /\ calls[c] = <<>>

\* C21: a state constructed with new behaves as one constructed with
\* new_with_filter and a predicate that is true of every client: every
\* behaviour of the former is a behaviour of the latter, the visibility check
\* returns true for every client, and no client is ever refused the appmenu
\* or the blur manager global.
C21_NewIsAlwaysTrueFilter ==
    /\ SpecAlwaysTrue
    /\ [](\A c \in Clients :
             /\ \A e \in DOMAIN global_data : can_view(e, c, global_data[e]).ret
             /\ \A k \in 1..Len(evals[c]) : evals[c][k].ret
             /\ \A k \in 1..Len(errors[c]) : errors[c][k] # "invalid_global"
             /\ \A k \in 1..Len(BindAttempts(c)) :
                   BindAttempts(c)[k].newid \in created[c])

\* With a state constructed by new, both clients bound the manager and the
\* client that the other filter of the model shuts out had a per-surface
\* object created.
C21_Witness ==
    /\ \A e \in DOMAIN global_data : global_data[e] = new(e)
    /\ \A c \in Clients : Len(BindAttempts(c)) >= 1 /\ evals[c][1].ret
    /\ \E id \in DOMAIN table["c2"] : table["c2"][id].kind = "object"
    /\ Len(calls["c2"]) >= 1

====
